---- MODULE Spec2Model ----
(***************************************************************************)
(* Florida election results loader (openelex/us/fl/load.py).               *)
(*                                                                         *)
(* LoadResults.run picks FlLoader (county summary files) or PrecinctLoader *)
(* (precinct detail files) from the mapping's generated_filename and runs  *)
(* its load().  A load reads the rows of one file, turns the tracked rows  *)
(* into RawResult records and hands the collected list to                  *)
(* RawResult.objects.insert.                                               *)
(*                                                                         *)
(* Python strings that the code inspects (strip, upper, substring, join,   *)
(* float parsing) are modelled as sequences of one-character strings, so   *)
(* that these operations are computed and not assumed.  Enumeration values *)
(* that the code only stores ('county', 'precinct', ...) are TLA+ strings. *)
(* A Python keyword dictionary is a record; an absent attribute is an      *)
(* absent record field.                                                    *)
(***************************************************************************)
EXTENDS Integers, Sequences, FiniteSets, TLC

\* ------------------------------------------------------------------------
\* Bounds of the model
\* ------------------------------------------------------------------------

\* Rows read from one source file.
MaxRows == 3

\* ------------------------------------------------------------------------
\* Python string operations
\* ------------------------------------------------------------------------

LowerCase == <<"a","b","c","d","e","f","g","h","i","j","k","l","m","n","o","p","q","r","s","t","u","v","w","x","y","z">>

UpperCase == <<"A","B","C","D","E","F","G","H","I","J","K","L","M","N","O","P","Q","R","S","T","U","V","W","X","Y","Z">>

Digits == <<"0","1","2","3","4","5","6","7","8","9">>

Range(s) == { s[i] : i \in DOMAIN s }

\* Position of character c in the sequence s (c occurs in s).
IndexOf(c, s) == CHOOSE i \in DOMAIN s : s[i] = c

LowerChars == Range(LowerCase)

UpperChars == Range(UpperCase)

DigitChars == Range(Digits)

\* The upper-case form of each lower-case letter, and the reverse.
UpperOf == [c \in LowerChars |-> UpperCase[IndexOf(c, LowerCase)]]

LowerOf == [c \in UpperChars |-> LowerCase[IndexOf(c, UpperCase)]]

\* The value of each decimal digit.
DigitOf == [c \in DigitChars |-> IndexOf(c, Digits) - 1]

\* str.upper(), one character.
UpperChar(c) == IF c \in LowerChars THEN UpperOf[c] ELSE c

\* str.lower(), one character.
LowerChar(c) == IF c \in UpperChars THEN LowerOf[c] ELSE c

\* str.upper()
upper(s) == [i \in DOMAIN s |-> UpperChar(s[i])]

\* str.lower()
lower(s) == [i \in DOMAIN s |-> LowerChar(s[i])]

IsSpace(c) == c = " "

RECURSIVE lstrip(_)
lstrip(s) == IF s # <<>> /\ IsSpace(Head(s)) THEN lstrip(Tail(s)) ELSE s

RECURSIVE rstrip(_)
rstrip(s) == IF s # <<>> /\ IsSpace(s[Len(s)]) THEN rstrip(SubSeq(s, 1, Len(s) - 1)) ELSE s

\* str.strip(): leading and trailing whitespace removed.
strip(s) == rstrip(lstrip(s))

\* The Python test `sub in s` on strings.
Contains(sub, s) ==
    \E k \in 0 .. (Len(s) - Len(sub)) : \A j \in DOMAIN sub : s[k + j] = sub[j]

\* sep.join(bits)
RECURSIVE join(_, _)
join(sep, bits) ==
    IF bits = <<>> THEN <<>>
    ELSE IF Len(bits) = 1 THEN bits[1]
    ELSE bits[1] \o sep \o join(sep, Tail(bits))

AlnumChars == LowerChars \cup UpperChars \cup DigitChars

IsAlnum(c) == c \in AlnumChars

\* openelex.lib.text.slugify: lower case, every run of non-alphanumeric
\* characters collapsed to one substitute character.
RECURSIVE slugifyFrom(_, _, _)
slugifyFrom(s, substitute, inRun) ==
    IF s = <<>> THEN <<>>
    ELSE IF IsAlnum(Head(s))
         THEN <<LowerChar(Head(s))>> \o slugifyFrom(Tail(s), substitute, FALSE)
         ELSE (IF inRun THEN <<>> ELSE <<substitute>>) \o slugifyFrom(Tail(s), substitute, TRUE)

slugify(s) == slugifyFrom(s, "-", FALSE)

\* openelex.lib.text.ocd_type_id: the identifier part of an OCD id.
ocd_type_id(s) == [i \in DOMAIN s |-> IF IsAlnum(s[i]) THEN LowerChar(s[i]) ELSE "_"]

\* Value of a sequence of decimal digits.
RECURSIVE DigitsValue(_)
DigitsValue(d) ==
    IF d = <<>> THEN 0
    ELSE 10 * DigitsValue(SubSeq(d, 1, Len(d) - 1)) + DigitOf[d[Len(d)]]

\* A Python value with its run-time type.
PyStr(s) == [t |-> "str", v |-> s]

PyInt(n) == [t |-> "int", v |-> n]

\* ------------------------------------------------------------------------
\* Constants of the loaders
\* ------------------------------------------------------------------------

\* FlLoader.target_offices
target_offices == {
    <<"U",".","S","."," ","P","r","e","s","i","d","e","n","t"," ","b","y"," ","C","o","n","g","r","e","s","s","i","o","n","a","l"," ","D","i","s","t","r","i","c","t">>,
    <<"P","r","e","s","i","d","e","n","t"," ","o","f"," ","t","h","e"," ","U","n","i","t","e","d"," ","S","t","a","t","e","s">>,
    <<"U","n","i","t","e","d"," ","S","t","a","t","e","s"," ","S","e","n","a","t","o","r">>,
    <<"U","n","i","t","e","d"," ","S","t","a","t","e","s"," ","R","e","p","r","e","s","e","n","t","a","t","i","v","e">>,
    <<"S","t","a","t","e"," ","R","e","p","r","e","s","e","n","t","a","t","i","v","e">>,
    <<"S","t","a","t","e"," ","S","e","n","a","t","e">>,
    <<"S","t","a","t","e"," ","S","e","n","a","t","o","r">>,
    <<"G","o","v","e","r","n","o","r">>,
    <<"G","o","v","e","r","n","o","r"," ","a","n","d"," ","L","i","e","u","t","e","n","a","n","t"," ","G","o","v","e","r","n","o","r">>,
    <<"A","t","t","o","r","n","e","y"," ","G","e","n","e","r","a","l">>,
    <<"C","h","i","e","f"," ","F","i","n","a","n","c","i","a","l"," ","O","f","f","i","c","e","r">>,
    <<"C","o","m","m","i","s","s","i","o","n","e","r"," ","o","f"," ","A","g","r","i","c","u","l","t","u","r","e">> }

\* FlLoader.district_offices
district_offices == {
    <<"U","n","i","t","e","d"," ","S","t","a","t","e","s"," ","R","e","p","r","e","s","e","n","t","a","t","i","v","e">>,
    <<"S","t","a","t","e"," ","R","e","p","r","e","s","e","n","t","a","t","i","v","e">>,
    <<"S","t","a","t","e"," ","S","e","n","a","t","e">>,
    <<"S","t","a","t","e"," ","S","e","n","a","t","o","r">> }

\* The office whose results are by county and congressional district.
PresidentByDistrict == <<"U",".","S","."," ","P","r","e","s","i","d","e","n","t"," ","b","y"," ","C","o","n","g","r","e","s","s","i","o","n","a","l"," ","D","i","s","t","r","i","c","t">>

\* Python's None: the value unicodecsv.DictReader gives a column that a short
\* line does not reach.  It is no string: its one element is not a character.
None == <<"None">>

\* Datasource._jurisdictions(): the reference list of counties, in list order.
\* "Dade County" is listed once; "Leon County" is listed twice in different
\* case with different ids; "Bay County" is missing.
Jurisdictions == <<
    [county |-> <<"L","e","o","n"," ","C","o","u","n","t","y">>, ocd_id |-> <<"s","t","a","t","e",":","f","l","/","c","o","u","n","t","y",":","l","e","o","n">>],
    [county |-> <<"D","a","d","e"," ","C","o","u","n","t","y">>, ocd_id |-> <<"s","t","a","t","e",":","f","l","/","c","o","u","n","t","y",":","m","i","a","m","i","-","d","a","d","e">>],
    [county |-> <<"L","E","O","N"," ","C","O","U","N","T","Y">>, ocd_id |-> <<"s","t","a","t","e",":","f","l","/","c","o","u","n","t","y",":","l","e","o","n","_","c","o","u","n","t","y">>] >>

\* ------------------------------------------------------------------------
\* Inputs: the mappings and the rows a file may hold
\* ------------------------------------------------------------------------

CountyMapping ==
    [generated_filename |-> <<"f","l","_","_","g","e","n","e","r","a","l",".","t","s","v">>,
     election |-> <<"f","l","-","2","0","1","2","-","g","e","n","e","r","a","l">>,
     ocd_id |-> <<"s","t","a","t","e",":","f","l">>]

PrecinctMapping ==
    [generated_filename |-> <<"f","l","_","_","g","e","n","e","r","a","l","_","_","p","r","e","c","i","n","c","t",".","t","s","v">>,
     election |-> <<"f","l","-","2","0","1","2","-","g","e","n","e","r","a","l">>,
     ocd_id |-> <<"s","t","a","t","e",":","f","l">>]

Mappings == {CountyMapping, PrecinctMapping}

\* The mapping before LoadResults.run was ever called.
NoMapping == [generated_filename |-> <<>>, election |-> <<>>, ocd_id |-> <<>>]

CountyRow(office, juris1num, last, first, county, votes) ==
    [OfficeDesc |-> office, Juris1num |-> juris1num, CanNameLast |-> last,
     CanNameFirst |-> first, CanNameMiddle |-> <<>>, PartyName |-> <<"R","E","P">>,
     CountyName |-> county, CanVotes |-> votes]

\* Rows of a county summary file: a tracked office; the same row with another
\* vote count; a district office with padding; the by-district presidential
\* office with a blank vote count; an office that is not tracked; a line cut
\* short before its last column, CanVotes.
CountyRows == {
    CountyRow(<<"G","o","v","e","r","n","o","r">>, <<>>, <<"S","c","o","t","t">>, <<"R","i","c","k">>, <<"L","e","o","n">>, <<"1","0","0">>),
    CountyRow(<<"G","o","v","e","r","n","o","r">>, <<>>, <<"S","c","o","t","t">>, <<"R","i","c","k">>, <<"L","e","o","n">>, <<"2","5","0">>),
    CountyRow(<<" ","S","t","a","t","e"," ","S","e","n","a","t","o","r"," ">>, <<" ","5">>, <<"S","m","i","t","h">>, <<"A","n","n">>, <<"L","e","o","n"," ">>, <<"1","2">>),
    CountyRow(<<"U",".","S","."," ","P","r","e","s","i","d","e","n","t"," ","b","y"," ","C","o","n","g","r","e","s","s","i","o","n","a","l"," ","D","i","s","t","r","i","c","t">>, <<"2"," ">>, <<"O","b","a","m","a">>, <<"B","a","r","a","c","k">>, <<"D","a","d","e">>, <<>>),
    CountyRow(<<"C","i","t","y"," ","C","o","u","n","c","i","l">>, <<>>, <<"S","m","i","t","h">>, <<"A","n","n">>, <<"L","e","o","n">>, <<"1","2">>),
    CountyRow(<<"G","o","v","e","r","n","o","r">>, <<>>, <<"S","c","o","t","t">>, <<"R","i","c","k">>, <<"D","a","d","e">>, None) }

PrecinctRow(county, contest, district, candidate, votes) ==
    [county_name |-> county, precinct_id |-> <<"1","0","1">>, polling_location |-> <<"T","o","w","n"," ","H","a","l","l">>,
     contest_name |-> contest, district |-> district, candidate |-> candidate,
     party |-> <<"R","E","P">>, votes |-> votes]

\* Rows of a precinct detail file: a tracked contest in a county listed twice;
\* the same row with another vote count; a contest name that only contains a
\* tracked office, in a county listed once, with a blank vote count; a county
\* that is not listed; a contest that is not tracked; the by-district
\* presidential office with a negative count; an infinite count.
PrecinctRows == {
    PrecinctRow(<<"L","e","o","n">>, <<"G","o","v","e","r","n","o","r">>, <<>>, <<"R","i","c","k"," ","S","c","o","t","t">>, <<"1","0","0">>),
    PrecinctRow(<<"L","e","o","n">>, <<"G","o","v","e","r","n","o","r">>, <<>>, <<"R","i","c","k"," ","S","c","o","t","t">>, <<"1","2","3",".","9">>),
    PrecinctRow(<<"D","a","d","e">>, <<"S","t","a","t","e"," ","S","e","n","a","t","o","r",","," ","D","i","s","t","r","i","c","t"," ","5">>, <<" ","5"," ">>, <<"U","n","d","e","r","V","o","t","e","s">>, <<" ">>),
    PrecinctRow(<<"B","a","y">>, <<"G","o","v","e","r","n","o","r">>, <<>>, <<"R","i","c","k"," ","S","c","o","t","t">>, <<"1","0","0">>),
    PrecinctRow(<<"B","a","y">>, <<"C","i","t","y"," ","C","o","u","n","c","i","l">>, <<>>, <<"A","n","n"," ","S","m","i","t","h">>, <<"1","2">>),
    PrecinctRow(<<"D","a","d","e">>, <<"U",".","S","."," ","P","r","e","s","i","d","e","n","t"," ","b","y"," ","C","o","n","g","r","e","s","s","i","o","n","a","l"," ","D","i","s","t","r","i","c","t">>, <<"2">>, <<"W","r","i","t","e","i","n","V","o","t","e","s">>, <<"-","5">>),
    PrecinctRow(<<"D","a","d","e">>, <<"G","o","v","e","r","n","o","r">>, <<>>, <<"R","i","c","k"," ","S","c","o","t","t">>, <<"i","n","f">>) }

\* ------------------------------------------------------------------------
\* RawResult and the helpers both loaders share
\* ------------------------------------------------------------------------

\* dict.update(new): the keys of new win.
update(kwargs, new) == new @@ kwargs

\* BaseLoader._build_common_election_kwargs: the fields every result of one
\* file shares.
build_common_election_kwargs(mapping) ==
    [source |-> mapping.generated_filename, election_id |-> mapping.election]

\* RawResult.contest_slug
contest_slug(rawresult) == slugify(rawresult.office)

\* RawResult.candidate_slug
candidate_slug(rawresult) ==
    IF "full_name" \in DOMAIN rawresult
    THEN slugify(rawresult.full_name)
    ELSE slugify(join(<<" ">>, <<rawresult.given_name, rawresult.additional_name,
                                rawresult.family_name>>))

\* FlLoader._key: the string that identifies a raw result within one source.
\* rawresult.district is falsy when absent or empty; reading an absent
\* reporting_district raises AttributeError, which is swallowed.
key(rawresult) ==
    LET bits == <<contest_slug(rawresult), candidate_slug(rawresult),
                  slugify(rawresult.jurisdiction)>>
        district == IF "district" \in DOMAIN rawresult /\ rawresult.district # <<>>
                    THEN <<rawresult.district>> ELSE <<>>
        reporting == IF "reporting_district" \in DOMAIN rawresult
                     THEN <<rawresult.reporting_district>> ELSE <<>>
    IN  join(<<"-">>, bits \o district \o reporting)

\* Python float(): the literal without its sign.
Unsigned(s) == IF s # <<>> /\ Head(s) \in {"+", "-"} THEN Tail(s) ELSE s

\* Python float(): an unsigned decimal literal, digits with at most one point
\* and at least one digit (exponent forms are not among the rows' values).
IsDecimal(u) ==
    /\ \A i \in DOMAIN u : u[i] \in DigitChars \cup {"."}
    /\ Cardinality({i \in DOMAIN u : u[i] = "."}) <= 1
    /\ \E i \in DOMAIN u : u[i] \in DigitChars

\* The digits before the point.
IntegerPart(u) ==
    IF \E i \in DOMAIN u : u[i] = "."
    THEN SubSeq(u, 1, (CHOOSE i \in DOMAIN u : u[i] = ".") - 1)
    ELSE u

\* FlLoader._votes: int(float(val)), 0 for a blank value and when float() or
\* int() raises ValueError (a malformed literal, or nan).  int() of an
\* infinity raises OverflowError, which the method does not catch.
votes(val) ==
    LET s == strip(val)
        u == Unsigned(s)
    IN  IF s = <<>> THEN [raised |-> FALSE, value |-> 0]
        ELSE IF lower(u) \in {<<"i","n","f">>, <<"i","n","f","i","n","i","t","y">>}
             THEN [raised |-> TRUE, error |-> "OverflowError"]
        ELSE IF lower(u) = <<"n","a","n">> THEN [raised |-> FALSE, value |-> 0]
        ELSE IF IsDecimal(u)
             THEN [raised |-> FALSE,
                   value |-> IF Head(s) = "-" THEN 0 - DigitsValue(IntegerPart(u))
                                              ELSE DigitsValue(IntegerPart(u))]
        ELSE [raised |-> FALSE, value |-> 0]

\* ------------------------------------------------------------------------
\* FlLoader: county summary files
\* ------------------------------------------------------------------------

FlLoader_skip_row(row) == strip(row.OfficeDesc) \notin target_offices

\* A faulty variant of _build_contest_kwargs: the district is taken from
\* Juris1num for every office.
FlLoader_build_contest_kwargs_any_office(row) ==
    [office |-> strip(row.OfficeDesc), district |-> strip(row.Juris1num)]

FlLoader_build_contest_kwargs(row) ==
    LET office == strip(row.OfficeDesc)
    IN  IF office \in district_offices
        THEN [office |-> office, district |-> strip(row.Juris1num)]
        ELSE [office |-> office]

FlLoader_build_candidate_kwargs(row) ==
    [family_name |-> strip(row.CanNameLast),
     given_name |-> strip(row.CanNameFirst),
     additional_name |-> strip(row.CanNameMiddle)]

\* A faulty variant of _build_result_kwargs without
\* the by-district branch, so every result is by county.
FlLoader_build_result_kwargs_by_county(mapping, row) ==
    LET jurisdiction == strip(row.CountyName)
    IN  [party |-> strip(row.PartyName),
         jurisdiction |-> jurisdiction,
         ocd_id |-> mapping.ocd_id \o <<"/","c","o","u","n","t","y",":">> \o ocd_type_id(jurisdiction),
         votes |-> PyStr(strip(row.CanVotes)),
         reporting_level |-> "county"]

FlLoader_build_result_kwargs(mapping, row) ==
    LET jurisdiction == strip(row.CountyName)
        kwargs == [party |-> strip(row.PartyName),
                   jurisdiction |-> jurisdiction,
                   ocd_id |-> mapping.ocd_id \o <<"/","c","o","u","n","t","y",":">> \o ocd_type_id(jurisdiction),
                   votes |-> PyStr(strip(row.CanVotes))]
    IN  IF strip(row.OfficeDesc) = PresidentByDistrict
        THEN update(kwargs, [reporting_level |-> "congressional_district_by_county",
                             reporting_district |-> strip(row.Juris1num)])
        ELSE update(kwargs, [reporting_level |-> "county"])

\* FlLoader._prep_result.  Calling .strip() on a column that is None raises
\* AttributeError.
FlLoader_prep_result(common_kwargs, mapping, row) ==
    IF \E f \in DOMAIN row : row[f] = None
    THEN [raised |-> TRUE, error |-> "AttributeError"]
    ELSE [raised |-> FALSE,
          result |-> update(update(update(common_kwargs,
                                          FlLoader_build_contest_kwargs(row)),
                                   FlLoader_build_candidate_kwargs(row)),
                            FlLoader_build_result_kwargs(mapping, row))]

\* ------------------------------------------------------------------------
\* PrecinctLoader: precinct detail files
\* ------------------------------------------------------------------------

\* A faulty variant of PrecinctLoader._skip_row: the inherited exact test.
PrecinctLoader_skip_row_exact(row) == row.contest_name \notin target_offices

PrecinctLoader_skip_row(row) ==
    IF \E o \in target_offices : Contains(o, row.contest_name) THEN FALSE ELSE TRUE

PrecinctLoader_build_contest_kwargs(row) ==
    [office |-> row.contest_name, district |-> strip(row.district)]

PrecinctLoader_build_candidate_kwargs(row) ==
    LET candidate ==
            IF strip(row.candidate) = <<"U","n","d","e","r","V","o","t","e","s">> THEN <<"U","n","d","e","r"," ","V","o","t","e","s">>
            ELSE IF strip(row.candidate) = <<"O","v","e","r","V","o","t","e","s">> THEN <<"O","v","e","r"," ","V","o","t","e","s">>
            ELSE IF strip(row.candidate) = <<"W","r","i","t","e","i","n","V","o","t","e","s">> THEN <<"W","r","i","t","e","-","i","n","s">>
            ELSE row.candidate
        full_name == strip(candidate)
    IN  [full_name |-> full_name, name_slug |-> slugifyFrom(full_name, "-", FALSE)]

\* The list comprehension of _prep_precinct_result: the reference entries
\* whose county equals "<county_name> COUNTY" without regard to case.
county_matches(row) ==
    SelectSeq(Jurisdictions,
              LAMBDA c : upper(c.county) = upper(row.county_name) \o <<" ","C","O","U","N","T","Y">>)

\* A faulty variant of the list index: the last match.
county_entry_last(matches) == matches[Len(matches)]

\* The entry whose ocd_id is used: element [0] of the matches.
county_entry(matches) == matches[1]

\* PrecinctLoader._prep_precinct_result.  [0] of an empty list raises
\* IndexError; _votes may raise OverflowError.
PrecinctLoader_prep_precinct_result(common_kwargs, row) ==
    LET kwargs == update(update(common_kwargs, PrecinctLoader_build_contest_kwargs(row)),
                         PrecinctLoader_build_candidate_kwargs(row))
        precinct == strip(row.precinct_id \o <<" ">> \o row.polling_location)
        matches == county_matches(row)
        v == votes(row.votes)
    IN  IF matches = <<>> THEN [raised |-> TRUE, error |-> "IndexError"]
        ELSE IF v.raised THEN [raised |-> TRUE, error |-> v.error]
        ELSE [raised |-> FALSE,
              result |-> update(kwargs,
                  [reporting_level |-> "precinct",
                   jurisdiction |-> precinct,
                   parent_jurisdiction |-> row.county_name,
                   ocd_id |-> county_entry(matches).ocd_id \o <<"/","p","r","e","c","i","n","c","t",":">>
                              \o ocd_type_id(row.precinct_id),
                   party |-> strip(row.party),
                   votes |-> PyInt(v.value)])]

\* ------------------------------------------------------------------------
\* State
\* ------------------------------------------------------------------------

VARIABLES
    pc,             \* "idle": LoadResults.run not yet called; "rows": inside
                    \* the row loop of load(); "done": load() has returned or raised
    loader,         \* the class LoadResults.run instantiated
    mapping,        \* the mapping handed to LoadResults.run
    common_kwargs,  \* self._common_kwargs
    handleOpen,     \* whether the source file handle is open
    results,        \* the local list `results` of load()
    seen,           \* the local set `seen` of FlLoader.load()
    inserted,       \* the lists handed to RawResult.objects.insert by this load
    status,         \* "none" while loading, then "Flushed" or "Aborted"
    rows,           \* history: the rows read from the file so far
    outcome,        \* history: what became of each row read
    prevStatus,     \* history: how the load before this one ended
    prevKeys        \* history: the key of the first result the load before
                    \* collected, if it collected any

vars == <<pc, loader, mapping, common_kwargs, handleOpen, results, seen,
          inserted, status, rows, outcome, prevStatus, prevKeys>>

Init ==
    /\ pc = "idle"
    /\ loader = "none"
    /\ mapping = NoMapping
    /\ common_kwargs = <<>>
    /\ handleOpen = FALSE
    /\ results = <<>>
    /\ seen = {}
    /\ inserted = <<>>
    /\ status = "none"
    /\ rows = <<>>
    /\ outcome = <<>>
    /\ prevStatus = "none"
    /\ prevKeys = {}

\* ------------------------------------------------------------------------
\* Operations
\* ------------------------------------------------------------------------

\* The loader class LoadResults.run picks for a mapping.
LoaderFor(m) ==
    IF Contains(<<"p","r","e","c","i","n","c","t">>, m.generated_filename) THEN "PrecinctLoader" ELSE "FlLoader"

\* self._common_kwargs as each load() sets it before the loop.
CommonKwargs(m) ==
    IF LoaderFor(m) = "PrecinctLoader"
    THEN update(build_common_election_kwargs(m), [reporting_level |-> "precinct"])
    ELSE build_common_election_kwargs(m)

\* A faulty variant of the two assignments: the batch and the seen-set live
\* on from the load before.
StaleBatch == UNCHANGED <<results, seen>>

\* `results = []` and `seen = set()`: the batch and the seen-set are locals of
\* one call of load().
FreshBatch == results' = <<>> /\ seen' = {}

\* LoadResults.run up to the first row: a new loader object is made for the
\* mapping and its load() opens the file and starts with an empty batch.
Run(m) ==
    /\ pc \in {"idle", "done"}
    /\ pc' = "rows"
    /\ loader' = LoaderFor(m)
    /\ mapping' = m
    /\ common_kwargs' = CommonKwargs(m)
    /\ handleOpen' = TRUE
    /\ FreshBatch
    /\ inserted' = <<>>
    /\ status' = "none"
    /\ rows' = <<>>
    /\ outcome' = <<>>
    /\ prevStatus' = status
    /\ prevKeys' = IF results = <<>> THEN {} ELSE {key(results[1])}

\* A faulty variant of the exception path: the rows collected so far are
\* inserted before the exception leaves load().
AbortAfterInsert ==
    /\ handleOpen' = FALSE
    /\ inserted' = Append(inserted, results)
    /\ status' = "Aborted"
    /\ pc' = "done"

\* A faulty variant of the exception path: the file is opened without a with
\* statement and stays open.
AbortLeavingOpen ==
    /\ handleOpen' = handleOpen
    /\ inserted' = inserted
    /\ status' = "Aborted"
    /\ pc' = "done"

\* An exception leaves load(): the with statement closes the file on the way
\* out and RawResult.objects.insert is never reached.
Abort ==
    /\ handleOpen' = FALSE
    /\ inserted' = inserted
    /\ status' = "Aborted"
    /\ pc' = "done"

\* The deduplication of FlLoader.load: a result is appended unless its key
\* was seen.
Admit(result) ==
    IF key(result) \notin seen
    THEN /\ results' = Append(results, result)
         /\ seen' = seen \cup {key(result)}
         /\ outcome' = Append(outcome, "appended")
    ELSE /\ UNCHANGED <<results, seen>>
         /\ outcome' = Append(outcome, "duplicate")

\* One iteration of the loop of FlLoader.load.  A skipped row is only logged
\* (when its office name is shorter than 100 characters), which changes no
\* state.
FlRow(row) ==
    /\ pc = "rows"
    /\ loader = "FlLoader"
    /\ Len(rows) < MaxRows
    /\ rows' = Append(rows, row)
    /\ UNCHANGED <<loader, mapping, common_kwargs, prevStatus, prevKeys>>
    /\ IF FlLoader_skip_row(row)
       THEN /\ outcome' = Append(outcome, "skipped")
            /\ UNCHANGED <<pc, handleOpen, results, seen, inserted, status>>
       ELSE LET prep == FlLoader_prep_result(common_kwargs, mapping, row)
            IN  IF prep.raised
                THEN /\ Abort
                     /\ outcome' = Append(outcome, "raised")
                     /\ UNCHANGED <<results, seen>>
                ELSE /\ Admit(prep.result)
                     /\ UNCHANGED <<pc, handleOpen, inserted, status>>

\* The end of the file in FlLoader.load: the batch is inserted inside the
\* with block, which then closes the file.
FlInsert ==
    /\ pc = "rows"
    /\ loader = "FlLoader"
    /\ inserted' = Append(inserted, results)
    /\ handleOpen' = FALSE
    /\ status' = "Flushed"
    /\ pc' = "done"
    /\ UNCHANGED <<loader, mapping, common_kwargs, results, seen, rows, outcome, prevStatus, prevKeys>>

\* One iteration of the loop of PrecinctLoader.load: every row that is not
\* skipped is appended.
PrecinctRowStep(row) ==
    /\ pc = "rows"
    /\ loader = "PrecinctLoader"
    /\ Len(rows) < MaxRows
    /\ rows' = Append(rows, row)
    /\ UNCHANGED <<loader, mapping, common_kwargs, seen, prevStatus, prevKeys>>
    /\ IF PrecinctLoader_skip_row(row)
       THEN /\ outcome' = Append(outcome, "skipped")
            /\ UNCHANGED <<pc, handleOpen, results, inserted, status>>
       ELSE LET prep == PrecinctLoader_prep_precinct_result(common_kwargs, row)
            IN  IF prep.raised
                THEN /\ Abort
                     /\ outcome' = Append(outcome, "raised")
                     /\ UNCHANGED results
                ELSE /\ results' = Append(results, prep.result)
                     /\ outcome' = Append(outcome, "appended")
                     /\ UNCHANGED <<pc, handleOpen, inserted, status>>

\* The end of the file in PrecinctLoader.load: the with block closes the
\* file, then the batch is inserted.
PrecinctInsert ==
    /\ pc = "rows"
    /\ loader = "PrecinctLoader"
    /\ handleOpen' = FALSE
    /\ inserted' = Append(inserted, results)
    /\ status' = "Flushed"
    /\ pc' = "done"
    /\ UNCHANGED <<loader, mapping, common_kwargs, results, seen, rows, outcome, prevStatus, prevKeys>>

Next ==
    \/ \E m \in Mappings : Run(m)
    \/ \E row \in CountyRows : FlRow(row)
    \/ FlInsert
    \/ \E row \in PrecinctRows : PrecinctRowStep(row)
    \/ PrecinctInsert

Spec == Init /\ [][Next]_vars

\* ------------------------------------------------------------------------
\* Properties
\* ------------------------------------------------------------------------

Rows == DOMAIN rows

\* Row i put a result into the batch.
Produced(i) == outcome[i] = "appended"

\* The result row i put into the batch: results are appended in row order.
ResultOf(i) == results[Cardinality({j \in 1 .. i : Produced(j)})]

\* The result the running loader builds from a row it does not skip.
Built(row) ==
    IF loader = "FlLoader"
    THEN FlLoader_prep_result(common_kwargs, mapping, row)
    ELSE PrecinctLoader_prep_precinct_result(common_kwargs, row)

\* Row i belongs to a tracked contest and a result can be built from it.
Keyed(i) ==
    /\ IF loader = "FlLoader" THEN ~FlLoader_skip_row(rows[i])
                              ELSE ~PrecinctLoader_skip_row(rows[i])
    /\ ~Built(rows[i]).raised

RowKey(i) == key(Built(rows[i]).result)

\* The contest name of a precinct row contains a target office.
NamesTargetOffice(row) == \E o \in target_offices : Contains(o, row.contest_name)

\* The history agrees with the batch: one result per row that produced one.
HistoryOK ==
    /\ Len(outcome) = Len(rows)
    /\ pc # "idle" => Len(results) = Cardinality({i \in Rows : Produced(i)})

\* C1: the batch handed to the store, and the batch being collected, never
\* holds two results with the same deduplication key, for either loader.
C1_NoTwoResultsShareKey ==
    /\ \A i, j \in DOMAIN results : i # j => key(results[i]) # key(results[j])
    /\ \A b \in DOMAIN inserted : \A i, j \in DOMAIN inserted[b] :
           i # j => key(inserted[b][i]) # key(inserted[b][j])

\* C2: no partial flush.  While rows are read nothing has been inserted; a
\* load that ended Flushed made exactly one insert, of the whole batch, with
\* every row read accounted for and none of them raising; a load that ended
\* Aborted made no insert; a tracked precinct row whose county is not listed
\* leaves the load Aborted with nothing inserted.
C2_NoPartialFlush ==
    /\ HistoryOK
    /\ pc = "rows" => inserted = <<>> /\ status = "none"
    /\ pc = "done" =>
          \/ /\ status = "Flushed"
             /\ inserted = <<results>>
             /\ \A i \in Rows : outcome[i] # "raised"
          \/ /\ status = "Aborted"
             /\ inserted = <<>>
             /\ outcome[Len(rows)] = "raised"
    /\ \A i \in Rows :
          (loader = "PrecinctLoader" /\ NamesTargetOffice(rows[i])
             /\ \A k \in DOMAIN Jurisdictions :
                    upper(Jurisdictions[k].county) # upper(rows[i].county_name) \o <<" ","C","O","U","N","T","Y">>)
          => (status = "Aborted" /\ inserted = <<>> /\ i = Len(rows))

\* C2 witness: a precinct load aborted on a county that is not listed, after
\* an earlier row had put a result into the batch.
C2_Witness ==
    /\ loader = "PrecinctLoader" /\ status = "Aborted"
    /\ Len(rows) >= 2 /\ Produced(1)
    /\ rows[Len(rows)].county_name = <<"B","a","y">>
    /\ results # <<>> /\ inserted = <<>>

\* C3: every result carries a vote count that is a non-negative integer, and
\* coercing a raw vote value never raises.
C3_VotesNonNegativeInteger ==
    /\ \A i \in DOMAIN results :
           results[i].votes.t = "int" /\ results[i].votes.v >= 0
    /\ \A i \in Rows :
           "votes" \in DOMAIN rows[i] => ~votes(rows[i].votes).raised

\* The reference entries that match the county of a precinct row.
MatchingEntries(row) ==
    SelectSeq(Jurisdictions,
              LAMBDA c : upper(c.county) = upper(row.county_name \o <<" ","C","O","U","N","T","Y">>))

\* C4 as stated: a tracked precinct row whose county matches no entry or more
\* than one aborts the load, and a result is built only on exactly one match.
C4_ZeroOrAmbiguousMatchIsFatal ==
    loader = "PrecinctLoader" =>
        \A i \in Rows :
            NamesTargetOffice(rows[i]) =>
                /\ Len(MatchingEntries(rows[i])) # 1
                       => outcome[i] = "raised" /\ status = "Aborted"
                /\ Produced(i) => Len(MatchingEntries(rows[i])) = 1

\* C4 amended: resolution is fatal only when no entry matches: the load then
\* aborts at that row and no result is built for it.  A result is built only
\* when at least one entry matches, and its code is that of the first
\* matching entry in list order; with a match the row aborts the load only
\* when its vote value raises.
C4_NoMatchIsFatalFirstMatchWins ==
    loader = "PrecinctLoader" =>
        \A i \in Rows :
            NamesTargetOffice(rows[i]) =>
                LET matches == MatchingEntries(rows[i])
                IN  /\ matches = <<>> =>
                           /\ outcome[i] = "raised" /\ status = "Aborted"
                           /\ i = Len(rows) /\ inserted = <<>>
                    /\ Produced(i) =>
                           /\ matches # <<>>
                           /\ ResultOf(i).ocd_id =
                                  matches[1].ocd_id \o <<"/","p","r","e","c","i","n","c","t",":">>
                                  \o ocd_type_id(rows[i].precinct_id)
                    /\ (matches # <<>> /\ ~votes(rows[i].votes).raised) => Produced(i)

\* C4 witness: a result was built for a row whose county matches two entries,
\* and a later row whose county matches none aborted the load.
C4_Witness ==
    /\ loader = "PrecinctLoader" /\ status = "Aborted" /\ Len(rows) = 2
    /\ Produced(1) /\ Len(MatchingEntries(rows[1])) = 2
    /\ MatchingEntries(rows[2]) = <<>> /\ outcome[2] = "raised"

\* C5: in a county summary file a row whose stripped OfficeDesc is not a
\* target office never produces a result; in a precinct detail file whose
\* load has not aborted a row produces a result exactly when its
\* contest_name contains a target office.
C5_RowClassification ==
    /\ HistoryOK
    /\ loader = "FlLoader" =>
          \A i \in Rows :
              strip(rows[i].OfficeDesc) \notin target_offices => outcome[i] = "skipped"
    /\ (loader = "PrecinctLoader" /\ status # "Aborted") =>
          \A i \in Rows : Produced(i) <=> NamesTargetOffice(rows[i])

\* C5 witness: a flushed precinct load in which a row whose contest name only
\* contains a target office produced a result and another row was skipped.
C5_Witness ==
    /\ loader = "PrecinctLoader" /\ status = "Flushed"
    /\ \E i, j \in Rows :
          /\ Produced(i) /\ rows[i].contest_name \notin target_offices
          /\ outcome[j] = "skipped"
    /\ Len(inserted[1]) = 1

\* C6 as stated, read in the claim's favour (an empty district counts as no
\* district value): a result of a district office carries a district, and a
\* result of any other office carries no district value.
C6_DistrictIffDistrictOffice ==
    \A i \in DOMAIN results :
        LET r == results[i]
        IN  /\ r.office \in district_offices => "district" \in DOMAIN r
            /\ r.office \notin district_offices =>
                   ~("district" \in DOMAIN r /\ r.district # <<>>)

\* C6 amended: a result of the county summary loader carries a district
\* (the stripped Juris1num) exactly when its office is a district office; a
\* result of the precinct loader always carries the stripped district column,
\* whatever its office.
C6_DistrictByLoader ==
    \A i \in Rows :
    Produced(i) =>
        LET r == ResultOf(i)
        IN  /\ loader = "FlLoader" =>
                   /\ "district" \in DOMAIN r <=> r.office \in district_offices
                   /\ "district" \in DOMAIN r => r.district = strip(rows[i].Juris1num)
            /\ loader = "PrecinctLoader" =>
                   /\ "district" \in DOMAIN r
                   /\ r.district = strip(rows[i].district)

\* C6 witness: a county batch with a result that carries a district and a
\* result that carries none.
C6_Witness ==
    /\ loader = "FlLoader" /\ status = "Flushed"
    /\ \E i, j \in DOMAIN results :
          /\ "district" \in DOMAIN results[i] /\ results[i].district = <<"5">>
          /\ "district" \notin DOMAIN results[j]

\* C7 as stated: a result is by congressional district within county exactly
\* when its office is the by-district presidential office, and then carries
\* a reporting district; in a county file any other office is by county with
\* no reporting district.
C7_LevelIffPresidentByDistrict ==
    \A i \in DOMAIN results :
        LET r == results[i]
        IN  /\ r.reporting_level = "congressional_district_by_county"
                   <=> r.office = PresidentByDistrict
            /\ r.office = PresidentByDistrict => "reporting_district" \in DOMAIN r
            /\ (loader = "FlLoader" /\ r.office # PresidentByDistrict) =>
                   r.reporting_level = "county" /\ "reporting_district" \notin DOMAIN r

\* C7 amended: for a result of the county summary loader the level is
\* congressional_district_by_county exactly when the office is the
\* by-district presidential office, and it then carries the stripped
\* Juris1num as reporting district; any other office gives level county and
\* no reporting district.  A result of the precinct loader has level precinct
\* and no reporting district, whatever its office.
C7_LevelByLoader ==
    \A i \in Rows :
    Produced(i) =>
        LET r == ResultOf(i)
        IN  /\ loader = "FlLoader" =>
                   IF r.office = PresidentByDistrict
                   THEN /\ r.reporting_level = "congressional_district_by_county"
                        /\ "reporting_district" \in DOMAIN r
                        /\ r.reporting_district = strip(rows[i].Juris1num)
                   ELSE /\ r.reporting_level = "county"
                        /\ "reporting_district" \notin DOMAIN r
            /\ loader = "PrecinctLoader" =>
                   /\ r.reporting_level = "precinct"
                   /\ "reporting_district" \notin DOMAIN r

\* C7 witness: a county batch with a by-district presidential result and a
\* result by county.
C7_Witness ==
    /\ loader = "FlLoader" /\ status = "Flushed"
    /\ \E i, j \in DOMAIN results :
          /\ results[i].reporting_level = "congressional_district_by_county"
          /\ results[i].reporting_district = <<"2">>
          /\ results[j].reporting_level = "county"

RowAlone(m, acc, row) ==
    IF acc.raised THEN acc
    ELSE IF LoaderFor(m) = "FlLoader"
    THEN IF strip(row.OfficeDesc) \notin target_offices THEN acc
         ELSE LET prep == FlLoader_prep_result(CommonKwargs(m), m, row)
              IN  IF prep.raised THEN [acc EXCEPT !.raised = TRUE]
                  ELSE IF key(prep.result) \in acc.seen THEN acc
                  ELSE [results |-> Append(acc.results, prep.result),
                        seen |-> acc.seen \cup {key(prep.result)},
                        raised |-> FALSE]
    ELSE IF ~NamesTargetOffice(row) THEN acc
         ELSE LET prep == PrecinctLoader_prep_precinct_result(CommonKwargs(m), row)
              IN  IF prep.raised THEN [acc EXCEPT !.raised = TRUE]
                  ELSE [acc EXCEPT !.results = Append(acc.results, prep.result)]

RECURSIVE LoadFrom(_, _, _)
LoadFrom(m, acc, rs) ==
    IF rs = <<>> THEN acc ELSE LoadFrom(m, RowAlone(m, acc, Head(rs)), Tail(rs))

\* One load of the rows rs of the file of mapping m on its own, from an empty
\* batch and an empty seen-set, as a fold over the rows.
LoadAlone(m, rs) == LoadFrom(m, [results |-> <<>>, seen |-> {}, raised |-> FALSE], rs)

\* C9: loads of different files are independent.  The batch a load flushes
\* is the batch its file gives when loaded alone, whatever the load before
\* collected and however it ended; a load aborts only if it aborts alone.
C9_LoadsIndependent ==
    pc # "idle" =>
        LET alone == LoadAlone(mapping, rows)
        IN  /\ status = "Flushed" => inserted = <<alone.results>> /\ ~alone.raised
            /\ status = "Aborted" => alone.raised
            /\ pc = "rows" => results = alone.results

\* C9 witness: a load flushed a result whose key the load before, which
\* aborted, had already collected.
C9_Witness ==
    /\ prevStatus = "Aborted" /\ status = "Flushed"
    /\ \E i \in DOMAIN inserted[1] : key(inserted[1][i]) \in prevKeys

\* C10: the source file handle is open exactly while rows are read; when a
\* load has ended, flushed or aborted, the handle is closed.
C10_HandleReleased ==
    /\ pc = "rows" => handleOpen
    /\ pc = "done" => ~handleOpen /\ status \in {"Flushed", "Aborted"}

\* C10 witness: a load that aborted after rows were read.
C10_Witness ==
    /\ pc = "done" /\ status = "Aborted" /\ ~handleOpen
    /\ outcome[Len(rows)] = "raised"

====
